---- MODULE Spec2Model ----
(***************************************************************************)
(* Librarian RAG service: the lifecycle state machine of app/main.py      *)
(* (lifespan, load_dependencies, timed_load_wrapper,                      *)
(* _handle_startup_errors), the /context request handler of               *)
(* app/api/v1/endpoints/context.py and the /health handler of             *)
(* app/api/v1/endpoints/health.py.                                        *)
(*                                                                         *)
(* The service runs on one asyncio event loop: code between two awaits is *)
(* one atomic step, so every action below is the code from one await to   *)
(* the next.  The outcome of each awaited external call (model load,      *)
(* download, Redis, ChromaDB, inference) is chosen by the environment.    *)
(***************************************************************************)
EXTENDS Integers, Sequences, FiniteSets, TLC

None == "None"

\* An optional structured value is a sequence of length 0 (absent) or 1.
Absent == <<>>

Some(x) == <<x>>

Get(opt) == opt[1]

(***************************************************************************)
(* Configuration (app/core/config.py)                                      *)
(***************************************************************************)
EMBEDDING_MODEL_NAME == "BAAI/bge-large-en-v1.5"

RERANK_CANDIDATE_POOL_SIZE == 25

\* embedding-model identities an index manifest can carry
ManifestModels == {EMBEDDING_MODEL_NAME, "all-MiniLM-L6-v2", None}

\* collection names an index manifest can carry (None: key absent or empty)
ManifestCollections == {"codebase_collection", None}

\* the index manifests the artifact store can deliver
Manifests ==
    [embedding_model : ManifestModels,
     chroma_collection_name : ManifestCollections,
     branch : {"main"}]

IndexStatus == {"loading", "loaded", "not_found"}

VARIABLES
    proc,                 \* "running" | "exited": the serving process
    RERANKING_ENABLED,    \* settings.RERANKING_ENABLED of this deployment
    index_status,         \* app.state.index_status
    index_last_modified,  \* app.state.index_last_modified (None or a time)
    embedding_model,      \* app.state.embedding_model
    reranker_model,       \* app.state.reranker_model
    chroma_collection,    \* app.state.chroma_collection
    index_manifest,       \* app.state.index_manifest
    redis_client,         \* app.state.redis_client
    load_pc,              \* position of the background startup task
    fatal,                \* why the startup task raised ("none" if it did not)
    reranker_load,        \* "not_tried" | "ok" | "failed": outcome of the reranker load
    backend_up,           \* environment: the ChromaDB store is reachable
    cache,                \* environment: the Redis keyspace, key -> payload
    ctx,                  \* the in-flight /context request
    health,               \* the in-flight /health request
    probe,                \* a function of the handler applied on its own: inputs, result
    redis_answers         \* environment: the Redis server replies to commands

lifecycle == <<index_status, index_last_modified, embedding_model,
               reranker_model, chroma_collection, index_manifest>>

startup == <<load_pc, fatal, reranker_load>>

vars == <<proc, RERANKING_ENABLED, index_status, index_last_modified,
          embedding_model, reranker_model, chroma_collection, index_manifest,
          redis_client, load_pc, fatal, reranker_load, backend_up,
          cache, ctx, health, probe, redis_answers>>

\* no function is being applied on its own
NoProbe == [kind |-> "none"]

\* A response a handler has returned is sent before the event loop runs
\* anything else: a state with pc = "responded" shows the response together
\* with the state it was produced in.
Settled == ctx.pc # "responded" /\ health.pc # "responded"

Running == proc = "running" /\ Settled

(***************************************************************************)
(* ServiceLifecycle: app/main.py                                           *)
(***************************************************************************)

\* the positions at which load_dependencies is suspended in an await
AwaitPoints == {"embedding", "reranker", "download", "unpack", "client", "collection"}

\* lifespan, lines 161-187: the state a freshly started process publishes
\* before it starts listening; `client` is the outcome of the Redis ping.
LifespanStart(client) ==
    /\ proc' = "running"
    /\ index_status' = "loading"
    /\ index_last_modified' = None
    /\ embedding_model' = None
    /\ reranker_model' = None
    /\ chroma_collection' = None
    /\ index_manifest' = Absent
    /\ redis_client' = client
    /\ load_pc' = "embedding"
    /\ fatal' = "none"
    /\ reranker_load' = "not_tried"

\* load_dependencies, lines 75-79: the except block of the model-loading try
RaiseFromModelLoad(cause) ==
    /\ embedding_model' = None
    /\ index_status' = "not_found"
    /\ load_pc' = "raised"
    /\ fatal' = cause

\* load_dependencies, lines 136-145: the else branch and the except block of
\* the index-loading try
RaiseFromIndexLoad(cause) ==
    /\ chroma_collection' = None
    /\ index_status' = "not_found"
    /\ load_pc' = "raised"
    /\ fatal' = cause

\* lines 51-57 and 60/72: the SentenceTransformer load returns or raises
LoadEmbedding ==
    /\ Running /\ load_pc = "embedding"
    /\ \E ok \in BOOLEAN :
         IF ok
         THEN /\ embedding_model' = "SentenceTransformer"
              /\ load_pc' = IF RERANKING_ENABLED THEN "reranker" ELSE "download"
              /\ UNCHANGED <<index_status, fatal>>
         ELSE RaiseFromModelLoad("embedding_load")
    /\ UNCHANGED <<proc, RERANKING_ENABLED, probe, redis_answers, index_last_modified, reranker_model,
                   chroma_collection, index_manifest, redis_client,
                   reranker_load, backend_up, cache, ctx, health>>

\* lines 63-71: what the reranker load leaves in app.state.reranker_model
RerankerAfterLoad(ok) == IF ok THEN "CrossEncoder" ELSE None

\* lines 60-71: the CrossEncoder load returns or raises; never fatal
LoadReranker ==
    /\ Running /\ load_pc = "reranker"
    /\ \E ok \in BOOLEAN :
         /\ reranker_model' = RerankerAfterLoad(ok)
         /\ reranker_load' = IF ok THEN "ok" ELSE "failed"
    /\ load_pc' = "download"
    /\ UNCHANGED <<proc, RERANKING_ENABLED, probe, redis_answers, index_status, index_last_modified,
                   embedding_model, chroma_collection, index_manifest,
                   redis_client, fatal, backend_up, cache, ctx, health>>

\* lines 85-89 (index_manager.download_index_from_oci returns True or False)
DownloadIndex ==
    /\ Running /\ load_pc = "download"
    /\ \E downloaded \in BOOLEAN :
         IF downloaded
         THEN /\ load_pc' = "unpack"
              /\ UNCHANGED <<chroma_collection, index_status, fatal>>
         ELSE RaiseFromIndexLoad("download")
    /\ UNCHANGED <<proc, RERANKING_ENABLED, probe, redis_answers, index_last_modified, embedding_model,
                   reranker_model, index_manifest, redis_client, reranker_load,
                   backend_up, cache, ctx, health>>

\* mutant: the check only looks for a model name
ModelMatchesAnyName(manifest) == manifest.embedding_model # None

\* line 110: the compatibility check of the manifest against the settings
ModelMatches(manifest) == manifest.embedding_model = EMBEDDING_MODEL_NAME

\* what the unpacked archive can hold at index_manifest.json: nothing,
\* bytes that are no JSON document, or a manifest
ManifestFileKinds == {"missing", "malformed", "json"}

\* lines 89-121: unpack_index returns; then, without another await, the
\* manifest is read, published, and validated
UnpackIndex ==
    /\ Running /\ load_pc = "unpack"
    /\ \E unpacked \in BOOLEAN, kind \in ManifestFileKinds, manifest \in Manifests :
         IF ~unpacked
         THEN RaiseFromIndexLoad("unpack") /\ UNCHANGED index_manifest
         ELSE IF kind = "missing"
         THEN RaiseFromIndexLoad("manifest_missing") /\ UNCHANGED index_manifest
         ELSE IF kind = "malformed"
         THEN RaiseFromIndexLoad("manifest_malformed") /\ UNCHANGED index_manifest
         ELSE /\ index_manifest' = Some(manifest)
              /\ IF ~ModelMatches(manifest)
                 THEN RaiseFromIndexLoad("model_mismatch")
                 ELSE IF manifest.chroma_collection_name = None
                 THEN RaiseFromIndexLoad("no_collection_name")
                 ELSE /\ load_pc' = "client"
                      /\ UNCHANGED <<chroma_collection, index_status, fatal>>
    /\ UNCHANGED <<proc, RERANKING_ENABLED, probe, redis_answers, index_last_modified, embedding_model,
                   reranker_model, redis_client, reranker_load, backend_up,
                   cache, ctx, health>>

\* mutant: LOADED is published as soon as the client is open, before
\* get_collection has returned
OpenClientPublishesEarly ==
    /\ Running /\ load_pc = "client"
    /\ \E ok \in BOOLEAN :
         IF ok
         THEN /\ load_pc' = "collection"
              /\ index_status' = "loaded"
              /\ UNCHANGED <<chroma_collection, fatal>>
         ELSE RaiseFromIndexLoad("client_open")
    /\ UNCHANGED <<proc, RERANKING_ENABLED, probe, redis_answers, index_last_modified, embedding_model,
                   reranker_model, index_manifest, redis_client, reranker_load,
                   backend_up, cache, ctx, health>>

\* lines 121-123: chromadb.PersistentClient returns or raises
OpenClient ==
    /\ Running /\ load_pc = "client"
    /\ \E ok \in BOOLEAN :
         IF ok
         THEN /\ load_pc' = "collection"
              /\ UNCHANGED <<chroma_collection, index_status, fatal>>
         ELSE RaiseFromIndexLoad("client_open")
    /\ UNCHANGED <<proc, RERANKING_ENABLED, probe, redis_answers, index_last_modified, embedding_model,
                   reranker_model, index_manifest, redis_client, reranker_load,
                   backend_up, cache, ctx, health>>

\* mutant: the handle is published, LOADED and the timestamp are not
PublishLoadedHandleOnly ==
    /\ chroma_collection' = Get(index_manifest).chroma_collection_name
    /\ load_pc' = "done"
    /\ UNCHANGED <<fatal, index_status, index_last_modified>>

\* mutant: the timestamp is not recorded
PublishLoadedNoTimestamp ==
    /\ chroma_collection' = Get(index_manifest).chroma_collection_name
    /\ index_status' = "loaded"
    /\ load_pc' = "done"
    /\ UNCHANGED <<fatal, index_last_modified>>

\* lines 127-135: get_collection returned: publish the handle, LOADED and
\* the timestamp (no await in between)
PublishLoaded ==
    /\ chroma_collection' = Get(index_manifest).chroma_collection_name
    /\ index_status' = "loaded"
    /\ index_last_modified' = "utcnow"
    /\ load_pc' = "done"
    /\ UNCHANGED fatal

\* lines 127-145: get_collection returns or raises
GetCollection ==
    /\ Running /\ load_pc = "collection"
    /\ \E ok \in BOOLEAN :
         IF ok /\ backend_up
         THEN PublishLoaded
         ELSE RaiseFromIndexLoad("collection_open") /\ UNCHANGED index_last_modified
    /\ UNCHANGED <<proc, RERANKING_ENABLED, probe, redis_answers, embedding_model, reranker_model,
                   index_manifest, redis_client, reranker_load, backend_up,
                   cache, ctx, health>>

\* timed_load_wrapper, lines 147-158: wait_for cancels load_dependencies at
\* the await it is suspended in.  The CancelledError is a BaseException, so
\* neither `except Exception` block of load_dependencies runs; the wrapper
\* re-raises TimeoutError.
StartupTimeout ==
    /\ proc = "running" /\ load_pc \in AwaitPoints
    /\ load_pc' = "timed_out"
    /\ fatal' = "timeout"
    /\ UNCHANGED <<proc, RERANKING_ENABLED, probe, redis_answers, lifecycle, redis_client,
                   reranker_load, backend_up, cache, ctx, health>>

(***************************************************************************)
(* The request data and the pure functions of the /context pipeline       *)
(* (app/api/v1/endpoints/context.py, app/models/schemas.py)               *)
(***************************************************************************)

\* Query texts are sequences of characters.
Queries == { <<"A", "b", "c">>, <<"a", "b", "c">> }

\* the largest max_results a request of the model asks for (schemas.py line
\* 36 allows 1..20)
MaxResults == 2

MaxResultsValues == {MaxResults}

\* Optional[dict]: absent (None), or a sequence of <<key, value>> pairs in
\* insertion order
FilterValues ==
    { Absent, Some(<< <<"language", "python">> >>), Some(<< <<"language", "rust">> >>) }

\* ContextRequest (schemas.py lines 34-43)
Bodies == [query : Queries, max_results : MaxResultsValues, filters : FilterValues]

\* str.lower()
LowerChar(c) == CASE c = "A" -> "a" [] c = "B" -> "b" [] c = "C" -> "c" [] OTHER -> c

Lower(s) == [i \in 1..Len(s) |-> LowerChar(s[i])]

\* str.strip()
RECURSIVE LStrip(_)
LStrip(s) == IF s # <<>> /\ Head(s) = " " THEN LStrip(Tail(s)) ELSE s

RECURSIVE RStrip(_)
RStrip(s) == IF s # <<>> /\ s[Len(s)] = " " THEN RStrip(SubSeq(s, 1, Len(s) - 1)) ELSE s

Strip(s) == RStrip(LStrip(s))

\* line 50
NormalizedQuery(body) == Strip(Lower(body.query))

\* `if body.filters:` (line 52): None and the empty map are falsy
Truthy(filters) == filters # Absent /\ Get(filters) # <<>>

\* lexicographic rank of the filter keys in use
KeyRank(k) == CASE k = "entity_type" -> 1 [] k = "is_test_file" -> 2 [] k = "language" -> 3 [] OTHER -> 4

\* mutant: the filters are serialized in insertion order
SortedFiltersInsertionOrder(pairs) == pairs

\* orjson.dumps(filters, option=OPT_SORT_KEYS) (line 53): the pairs in key order
SortedFilters(pairs) ==
    [i \in 1..Len(pairs) |->
        CHOOSE p \in {pairs[j] : j \in 1..Len(pairs)} :
            Cardinality({j \in 1..Len(pairs) : KeyRank(pairs[j][1]) < KeyRank(p[1])}) = i - 1]

\* mutant: the key is built from the query and max_results only
CacheKeyIgnoringFilters(body) == <<NormalizedQuery(body), body.max_results>>

\* lines 51-59: the parts joined by ":"; the digest is taken to be injective
CacheKey(body) ==
    <<NormalizedQuery(body), body.max_results>>
        \o (IF Truthy(body.filters) THEN <<SortedFilters(Get(body.filters))>> ELSE <<>>)

Keys == {CacheKey(b) : b \in Bodies}

\* The indexed corpus: content, metadata, and the distance (in tenths) the
\* backend reports for the query vector.
Corpus ==
    << [content |-> "auth.py",   metadata |-> [language |-> "python"],   distance |-> 1],
       [content |-> "README.md", metadata |-> [language |-> "markdown"], distance |-> 2],
       [content |-> "login.py",  metadata |-> [language |-> "python"],   distance |-> 3] >>

\* a row satisfies a `where` map when it has every pair of the map
Satisfies(row, where) ==
    ~Truthy(where) \/
    \A i \in 1..Len(Get(where)) :
        /\ Get(where)[i][1] \in DOMAIN row.metadata
        /\ row.metadata[Get(where)[i][1]] = Get(where)[i][2]

RECURSIVE SelectRows(_, _)
SelectRows(rows, where) ==
    IF rows = <<>> THEN <<>>
    ELSE IF Satisfies(Head(rows), where)
         THEN <<Head(rows)>> \o SelectRows(Tail(rows), where)
         ELSE SelectRows(Tail(rows), where)

FirstN(s, n) == SubSeq(s, 1, IF n < Len(s) THEN n ELSE Len(s))

\* chroma_collection.query(query_embeddings, n_results, where) (lines 111-122):
\* the n nearest rows that satisfy the filter, nearest first
CollectionQuery(n_results, where) == FirstN(SelectRows(Corpus, where), n_results)

\* reranker_model.predict(pairs) (lines 127-132): the score of one
\* (raw query, document) pair
Predict(query, content) ==
    IF query[1] = "A"
    THEN CASE content = "auth.py" -> 5 [] content = "README.md" -> 7 [] OTHER -> 7
    ELSE CASE content = "auth.py" -> 2 [] content = "README.md" -> 2 [] OTHER -> 9

\* mutant: the pool size is used whenever reranking is configured
NResultsRetrievalByConfig(reranker, enabled, max_results) ==
    IF enabled THEN RERANK_CANDIDATE_POOL_SIZE ELSE max_results

\* lines 104-108, for a configured pool size
NResultsFor(pool_size, reranker, enabled, max_results) ==
    IF reranker # None /\ enabled THEN pool_size ELSE max_results

\* lines 104-108 with the pool size of this deployment
NResultsRetrieval(reranker, enabled, max_results) ==
    NResultsFor(RERANK_CANDIDATE_POOL_SIZE, reranker, enabled, max_results)

\* mutant: the reranker is called whenever it is loaded and enabled
RerankAppliesWheneverLoaded(reranker, enabled, docs) == reranker # None /\ enabled

\* line 125
RerankApplies(reranker, enabled, docs) == reranker # None /\ enabled /\ docs # <<>>

\* mutant: a descending sort that puts the later of two equal scores first
RECURSIVE InsertDescTiesReversed(_, _)
InsertDescTiesReversed(sorted, x) ==
    IF sorted = <<>> THEN <<x>>
    ELSE IF Head(sorted).score > x.score
         THEN <<Head(sorted)>> \o InsertDescTiesReversed(Tail(sorted), x)
         ELSE <<x>> \o sorted

\* sorted(..., key=score, reverse=True) (line 134): stable, descending
RECURSIVE InsertDesc(_, _)
InsertDesc(sorted, x) ==
    IF sorted = <<>> THEN <<x>>
    ELSE IF Head(sorted).score >= x.score
         THEN <<Head(sorted)>> \o InsertDesc(Tail(sorted), x)
         ELSE <<x>> \o sorted

RECURSIVE SortedDesc(_)
SortedDesc(s) ==
    IF s = <<>> THEN <<>>
    ELSE InsertDesc(SortedDesc(SubSeq(s, 1, Len(s) - 1)), s[Len(s)])

\* mutant: the sorted candidates are not cut to max_results
RerankWithNoCut(rerank_scores, rows, max_results) ==
    SortedDesc([i \in 1..Len(rows) |->
        [content |-> rows[i].content, metadata |-> rows[i].metadata,
         score |-> rerank_scores[i]]])

\* lines 134-150: the (score, doc, metadata) triples sorted by score, cut to
\* max_results, as ContextChunks
RerankWith(rerank_scores, rows, max_results) ==
    FirstN(SortedDesc([i \in 1..Len(rows) |->
                [content |-> rows[i].content, metadata |-> rows[i].metadata,
                 score |-> rerank_scores[i]]]),
           max_results)

\* lines 127-150: ContextChunks of the rerank branch; the pairs handed to
\* the reranker hold the query as sent
RerankedChunks(query, rows, max_results) ==
    RerankWith([i \in 1..Len(rows) |-> Predict(query, rows[i].content)],
               rows, max_results)

\* mutant: the distance itself is given as the score
SimilarityChunksRawDistance(rows) ==
    [i \in 1..Len(rows) |->
        [content |-> rows[i].content, metadata |-> rows[i].metadata,
         score |-> rows[i].distance]]

\* lines 144-150: ContextChunks of the similarity branch, score = 1 - distance
\* (in tenths)
SimilarityChunks(rows) ==
    [i \in 1..Len(rows) |->
        [content |-> rows[i].content, metadata |-> rows[i].metadata,
         score |-> 10 - rows[i].distance]]

(***************************************************************************)
(* POST /context: get_context (context.py lines 27-180)                    *)
(***************************************************************************)

IdleCtx ==
    [pc |-> "idle", body |-> Absent, redis_client |-> None,
     chroma_collection |-> None, embedding_model |-> None,
     reranker_model |-> None, n_results |-> 0, rows |-> <<>>,
     calls |-> {}, faults |-> {}, elapsed |-> 0, response |-> Absent]

\* str(uuid.uuid4()) (lines 80, 155): a value that depends on nothing stored
UUIDs == {"uuid-1", "uuid-2"}

\* the response handed to the caller: HTTP status, the chunks, and which
\* path produced them ("cache", "similarity", "rerank", or "none"); an
\* HTTPException carries no query_id and no processing time
Response(status_code, context, source) ==
    [status_code |-> status_code, context |-> context, source |-> source,
     query_id |-> None, processing_time_ms |-> 0]

\* ContextResponse(query_id, context, processing_time_ms) (lines 79-83 and
\* 152-158): the time is measured from this request's start_time
ContextResponse(c, query_id, context, source) ==
    [Response(200, context, source) EXCEPT !.query_id = query_id,
                                           !.processing_time_ms = c.elapsed]

\* `return response` / `raise HTTPException`
Return(c, response) ==
    [c EXCEPT !.pc = "responded", !.rows = <<>>, !.response = Some(response)]

Respond(c, status_code, context, source) ==
    Return(c, Response(status_code, context, source))

\* an awaited call of this request has completed: time.monotonic() has
\* advanced by one unit since start_time
Awaited(c) == [c EXCEPT !.elapsed = @ + 1]

\* the named call raised an Exception
Raised(c, call) == [c EXCEPT !.faults = @ \cup {call}]

\* lines 87-102: the cache-miss path up to the await of the query encoding
AfterCacheMiss(c) ==
    IF c.chroma_collection = None
    THEN Respond(c, 503, <<>>, "none")
    ELSE [c EXCEPT !.pc = "encode", !.calls = @ \cup {"encode"}]

\* mutant: the cache is consulted before the embedding model is checked
ContextEntryCacheFirst(c) ==
    IF c.redis_client # None
    THEN [c EXCEPT !.pc = "cache_get", !.calls = @ \cup {"cache_get"}]
    ELSE IF c.embedding_model = None
         THEN Respond(c, 503, <<>>, "none")
         ELSE AfterCacheMiss(c)

\* lines 66-75: from the availability check to the first await
ContextEntry(c) ==
    IF c.embedding_model = None
    THEN Respond(c, 503, <<>>, "none")
    ELSE IF c.redis_client # None
         THEN [c EXCEPT !.pc = "cache_get", !.calls = @ \cup {"cache_get"}]
         ELSE AfterCacheMiss(c)

\* lines 47-75: a request arrives; the handler reads app.state once
ContextStart ==
    /\ Running /\ ctx.pc = "idle"
    /\ \E b \in Bodies :
         ctx' = ContextEntry([IdleCtx EXCEPT !.body = Some(b),
                                !.redis_client = redis_client,
                                !.chroma_collection = chroma_collection,
                                !.embedding_model = embedding_model,
                                !.reranker_model = reranker_model])
    /\ UNCHANGED <<proc, RERANKING_ENABLED, probe, redis_answers, lifecycle, redis_client, startup,
                   backend_up, cache, health>>

\* mutant: an exception of the cache read reaches the caller
CacheGetFaultSurfaces(c) == Respond(Raised(c, "cache_get"), 500, <<>>, "none")

\* lines 84-87: an exception of the cache read (connection, timeout,
\* undecodable or malformed payload) is logged; the miss path follows
CacheGetFault(c) == AfterCacheMiss(Raised(c, "cache_get"))

\* lines 75-93: redis get returns a value, nothing, or raises; the await has
\* no timeout, so nothing happens while the server does not reply
CacheGetReturns ==
    /\ Running /\ ctx.pc = "cache_get" /\ redis_answers
    /\ \E fault \in BOOLEAN, query_id \in UUIDs :
         LET c == Awaited(ctx)
             cached_result == cache[CacheKey(Get(ctx.body))]
         IN  ctx' = IF fault
                    THEN CacheGetFault(c)
                    ELSE IF cached_result # Absent
                         THEN Return(c, ContextResponse(c, query_id,
                                            Get(cached_result).context, "cache"))
                         ELSE AfterCacheMiss(c)
    /\ UNCHANGED <<proc, RERANKING_ENABLED, probe, redis_answers, lifecycle, redis_client, startup,
                   backend_up, cache, health>>

\* lines 99-118 and 175-180: the query encoding returns or raises
EncodeReturns ==
    /\ Running /\ ctx.pc = "encode"
    /\ \E ok \in BOOLEAN :
         LET c == Awaited(ctx)
         IN  ctx' = IF ok
                    THEN [c EXCEPT !.pc = "query",
                            !.n_results = NResultsRetrieval(c.reranker_model,
                                              RERANKING_ENABLED, Get(c.body).max_results),
                            !.calls = @ \cup {"query"}]
                    ELSE Respond(Raised(c, "encode"), 500, <<>>, "none")
    /\ UNCHANGED <<proc, RERANKING_ENABLED, probe, redis_answers, lifecycle, redis_client, startup,
                   backend_up, cache, health>>

\* mutant: the cache set is awaited whenever there is a cache client
AfterAssemblyAlwaysStores(c, query_id, chunks, source) ==
    IF c.redis_client # None
    THEN [c EXCEPT !.pc = "cache_set", !.rows = <<>>,
                   !.calls = @ \cup {"cache_set"},
                   !.response = Some(ContextResponse(c, query_id, chunks, source))]
    ELSE Return(c, ContextResponse(c, query_id, chunks, source))

\* lines 146-168: assemble the response; await the cache set when there is a
\* cache client and at least one chunk
AfterAssembly(c, query_id, chunks, source) ==
    IF c.redis_client # None /\ chunks # <<>>
    THEN [c EXCEPT !.pc = "cache_set", !.rows = <<>>,
                   !.calls = @ \cup {"cache_set"},
                   !.response = Some(ContextResponse(c, query_id, chunks, source))]
    ELSE Return(c, ContextResponse(c, query_id, chunks, source))

\* mutant: a reranker that raises is answered with the similarity ordering
RerankFaultFallsBack(c, query_id) ==
    AfterAssembly(Raised(c, "rerank"), query_id, SimilarityChunks(c.rows), "similarity")

\* lines 175-180: an exception of reranker_model.predict reaches the outer
\* except block
RerankFault(c, query_id) == Respond(Raised(c, "rerank"), 500, <<>>, "none")

\* lines 146-158 and 175-180: the ContextChunk list and the ContextResponse
\* are built, or their validation raises
Assemble(c, assembled, query_id, chunks, source) ==
    IF assembled
    THEN AfterAssembly(c, query_id, chunks, source)
    ELSE Respond(Raised(c, "assembly"), 500, <<>>, "none")

\* lines 111-150 and 175-180: the collection query returns or raises
QueryReturns ==
    /\ Running /\ ctx.pc = "query"
    /\ \E ok \in BOOLEAN, assembled \in BOOLEAN, query_id \in UUIDs :
         LET c == Awaited(ctx)
         IN  ctx' = IF ok /\ backend_up
                    THEN LET rows == CollectionQuery(c.n_results, Get(c.body).filters)
                         IN  IF RerankApplies(c.reranker_model, RERANKING_ENABLED, rows)
                             THEN [c EXCEPT !.pc = "rerank", !.rows = rows,
                                            !.calls = @ \cup {"rerank"}]
                             ELSE Assemble(c, assembled, query_id,
                                           SimilarityChunks(rows), "similarity")
                    ELSE Respond(Raised(c, "query"), 500, <<>>, "none")
    /\ UNCHANGED <<proc, RERANKING_ENABLED, probe, redis_answers, lifecycle, redis_client, startup,
                   backend_up, cache, health>>

\* lines 129-150 and 175-180: the reranker returns or raises
RerankReturns ==
    /\ Running /\ ctx.pc = "rerank"
    /\ \E ok \in BOOLEAN, assembled \in BOOLEAN, query_id \in UUIDs :
         LET c == Awaited(ctx)
         IN  ctx' = IF ok
                    THEN Assemble(c, assembled, query_id,
                            RerankedChunks(Get(c.body).query, c.rows, Get(c.body).max_results),
                            "rerank")
                    ELSE RerankFault(c, query_id)
    /\ UNCHANGED <<proc, RERANKING_ENABLED, probe, redis_answers, lifecycle, redis_client, startup,
                   backend_up, cache, health>>

\* mutant: the whole response is stored
PayloadToCacheWholeResponse(response) ==
    [context |-> response.context, query_id |-> response.query_id,
     processing_time_ms |-> response.processing_time_ms]

\* line 163: response.model_dump(exclude={'processing_time_ms', 'query_id'})
PayloadToCache(response) == [context |-> response.context]

\* lines 164-173: the redis set returns or raises; the response is returned.
\* The await has no timeout either.
CacheSetReturns ==
    /\ Running /\ ctx.pc = "cache_set" /\ redis_answers
    /\ \E ok \in BOOLEAN :
         /\ cache' = IF ok
                     THEN [cache EXCEPT ![CacheKey(Get(ctx.body))] =
                                            Some(PayloadToCache(Get(ctx.response)))]
                     ELSE cache
         /\ ctx' = Return(IF ok THEN Awaited(ctx) ELSE Raised(Awaited(ctx), "cache_set"),
                          Get(ctx.response))
    /\ UNCHANGED <<proc, RERANKING_ENABLED, probe, redis_answers, lifecycle, redis_client, startup,
                   backend_up, health>>

\* mutant: after a 500 the handler drops the collection handle
ContextResponseSentDropsCollection ==
    /\ ctx.pc = "responded"
    /\ ctx' = IdleCtx
    /\ chroma_collection' = IF Get(ctx.response).status_code = 500
                            THEN None ELSE chroma_collection
    /\ UNCHANGED <<proc, RERANKING_ENABLED, probe, redis_answers, index_status,
                   index_last_modified, embedding_model, reranker_model,
                   index_manifest, redis_client, startup, backend_up, cache, health>>

\* the framework sends the returned response (or the HTTPException)
ContextResponseSent ==
    /\ ctx.pc = "responded"
    /\ ctx' = IdleCtx
    /\ UNCHANGED <<proc, RERANKING_ENABLED, probe, redis_answers, lifecycle, redis_client, startup,
                   backend_up, cache, health>>

(***************************************************************************)
(* GET /health: get_health (health.py lines 24-100)                        *)
(***************************************************************************)

IdleHealth ==
    [pc |-> "idle", status |-> None, http_status |-> 0, index_status |-> None,
     redis_status |-> None, reranker_status |-> None,
     index_last_modified |-> None, resource_usage |-> None,
     index_branch |-> None, chroma_collection |-> None, backend_up |-> FALSE]

\* lines 42-49
RerankerStatus(enabled, reranker) ==
    IF enabled THEN (IF reranker # None THEN "loaded" ELSE "error") ELSE "disabled"

\* mutant: only a failed index degrades the service
ServiceStatusUnlessNotFound(status, reranker_status) ==
    IF status # "not_found" /\ reranker_status # "error" THEN "ok" ELSE "degraded"

\* line 51 (is_reranker_healthy is FALSE exactly when the substatus is "error")
ServiceStatus(status, reranker_status) ==
    IF status = "loaded" /\ reranker_status # "error" THEN "ok" ELSE "degraded"

\* lines 53-54: the response's status code
HttpStatus(service_status) == IF service_status = "degraded" THEN 503 ELSE 200

\* mutant: a check whose Redis ping did not succeed reports degraded
HealthFinishDegradedWithoutRedis(h, redis_status, resource_usage) ==
    [h EXCEPT !.pc = "responded",
              !.status = IF redis_status = "connected" THEN h.status ELSE "degraded",
              !.http_status = IF redis_status = "connected" THEN h.http_status ELSE 503,
              !.redis_status = redis_status,
              !.resource_usage = resource_usage,
              !.chroma_collection = chroma_collection,
              !.index_branch = IF h.index_status = "loaded" /\ index_manifest # Absent
                               THEN Get(index_manifest).branch ELSE None,
              !.index_last_modified = index_last_modified]

\* lines 64-100: resource usage, collection name, branch, and the response
HealthFinish(h, redis_status, resource_usage) ==
    [h EXCEPT !.pc = "responded",
              !.redis_status = redis_status,
              !.resource_usage = resource_usage,
              !.chroma_collection = chroma_collection,
              !.index_branch = IF h.index_status = "loaded" /\ index_manifest # Absent
                               THEN Get(index_manifest).branch ELSE None,
              !.index_last_modified = index_last_modified]

\* lines 38-59: a health check arrives; the status is decided before the
\* Redis ping is awaited.  backend_up records whether the storage backend
\* was reachable when the status was decided.
HealthStart ==
    /\ Running /\ health.pc = "idle"
    /\ LET rs == RerankerStatus(RERANKING_ENABLED, reranker_model)
           st == ServiceStatus(index_status, rs)
           h  == [IdleHealth EXCEPT !.index_status = index_status,
                     !.reranker_status = rs, !.status = st,
                     !.http_status = HttpStatus(st), !.backend_up = backend_up]
       IN  IF redis_client # None
           THEN health' = [h EXCEPT !.pc = "ping"]
           ELSE \E usage \in {"measured", "zero"} :
                    health' = HealthFinish(h, "disconnected", usage)
    /\ UNCHANGED <<proc, RERANKING_ENABLED, probe, redis_answers, lifecycle, redis_client, startup,
                   backend_up, cache, ctx>>

\* lines 59-100: the ping returns, raises or times out (wait_for, 1 second)
HealthPingReturns ==
    /\ Running /\ health.pc = "ping"
    /\ \E ok \in (IF redis_answers THEN BOOLEAN ELSE {FALSE}), usage \in {"measured", "zero"} :
         health' = HealthFinish(health, IF ok THEN "connected" ELSE "disconnected", usage)
    /\ UNCHANGED <<proc, RERANKING_ENABLED, probe, redis_answers, lifecycle, redis_client, startup,
                   backend_up, cache, ctx>>

\* the framework sends the HealthResponse
HealthResponseSent ==
    /\ health.pc = "responded"
    /\ health' = IdleHealth
    /\ UNCHANGED <<proc, RERANKING_ENABLED, probe, redis_answers, lifecycle, redis_client, startup,
                   backend_up, cache, ctx>>

(***************************************************************************)
(* Process start and end                                                   *)
(***************************************************************************)

\* line 43: sys.exit(1) ends the process and every request in flight
ProcessExit ==
    /\ proc' = "exited"
    /\ ctx' = IdleCtx
    /\ health' = IdleHealth

\* The interpreter ends only after every worker of the ThreadPoolExecutor
\* (main.py line 164) has returned: with a worker that never returns the event
\* loop is gone, no request is served, and the process stays.
ProcessExitBlocked ==
    /\ proc' = "exiting"
    /\ ctx' = IdleCtx
    /\ health' = IdleHealth

\* mutant: the callback logs the failure and returns
HandleStartupErrorsLogsOnly ==
    load_pc' = "finished" /\ UNCHANGED <<proc, ctx, health>>

\* _handle_startup_errors, lines 34-43: the done-callback of the startup task
\* After a timeout the executor call that was being awaited is still running
\* in its worker; it returns in the end, or never.
HandleStartupErrors ==
    IF load_pc = "raised"
    THEN ProcessExit /\ UNCHANGED load_pc
    ELSE IF load_pc = "timed_out"
    THEN (ProcessExit \/ ProcessExitBlocked) /\ UNCHANGED load_pc
    ELSE load_pc' = "finished" /\ UNCHANGED <<proc, ctx, health>>

StartupCallback ==
    /\ proc = "running" /\ load_pc \in {"raised", "timed_out", "done"}
    /\ HandleStartupErrors
    /\ UNCHANGED <<RERANKING_ENABLED, probe, redis_answers, lifecycle, redis_client, fatal,
                   reranker_load, backend_up, cache>>

\* lifespan, lines 189-195: the server is told to stop
Shutdown ==
    /\ proc = "running"
    /\ IF load_pc \in AwaitPoints
       THEN ProcessExit \/ ProcessExitBlocked
       ELSE ProcessExit
    /\ UNCHANGED <<RERANKING_ENABLED, probe, redis_answers, lifecycle, redis_client, startup,
                   backend_up, cache>>

\* lifespan, lines 161-187: the supervisor starts the process again; the
\* Redis keyspace outlives the process
Restart ==
    /\ proc = "exited"
    /\ \E client \in {"redis", None} : LifespanStart(client)
    /\ ctx' = IdleCtx
    /\ health' = IdleHealth
    /\ UNCHANGED <<RERANKING_ENABLED, probe, redis_answers, backend_up, cache>>

(***************************************************************************)
(* Environment                                                             *)
(***************************************************************************)

\* the storage backend becomes unreachable or reachable again
BackendFlips ==
    /\ Settled
    /\ backend_up' = ~backend_up
    /\ UNCHANGED <<proc, RERANKING_ENABLED, probe, redis_answers, lifecycle, redis_client, startup,
                   cache, ctx, health>>

\* settings.REDIS_CACHE_TTL_SECONDS (context.py line 167): an entry expires
CacheExpires ==
    /\ Settled
    /\ \E k \in Keys :
         /\ cache[k] # Absent
         /\ cache' = [cache EXCEPT ![k] = Absent]
    /\ UNCHANGED <<proc, RERANKING_ENABLED, probe, redis_answers, lifecycle, redis_client, startup,
                   backend_up, ctx, health>>

Init ==
    /\ proc = "running"
    /\ RERANKING_ENABLED \in BOOLEAN
    /\ index_status = "loading"
    /\ index_last_modified = None
    /\ embedding_model = None
    /\ reranker_model = None
    /\ chroma_collection = None
    /\ index_manifest = Absent
    /\ redis_client \in {"redis", None}
    /\ load_pc = "embedding"
    /\ fatal = "none"
    /\ reranker_load = "not_tried"
    /\ backend_up \in BOOLEAN
    /\ cache = [k \in Keys |-> Absent]
    /\ ctx = IdleCtx
    /\ health = IdleHealth
    /\ probe = NoProbe
    /\ redis_answers = TRUE

Next ==
    \/ LoadEmbedding
    \/ LoadReranker
    \/ DownloadIndex
    \/ UnpackIndex
    \/ OpenClient
    \/ GetCollection
    \/ StartupTimeout
    \/ StartupCallback
    \/ Shutdown
    \/ Restart
    \/ ContextStart
    \/ CacheGetReturns
    \/ EncodeReturns
    \/ QueryReturns
    \/ RerankReturns
    \/ CacheSetReturns
    \/ ContextResponseSent
    \/ HealthStart
    \/ HealthPingReturns
    \/ HealthResponseSent
    \/ BackendFlips
    \/ CacheExpires

Spec == Init /\ [][Next]_vars

\* The event loop runs a ready done-callback: the callback of a finished
\* startup task is not postponed forever.
FairSpec == Spec /\ WF_vars(StartupCallback)

\* In addition the timer of asyncio.wait_for (main.py lines 150-153) fires
\* when the load has not finished by then.
StartupFairSpec == Spec /\ WF_vars(StartupCallback) /\ WF_vars(StartupTimeout)

(***************************************************************************)
(* The handler's pure functions, each applied on its own to drawn inputs   *)
(***************************************************************************)

service == <<proc, RERANKING_ENABLED, lifecycle, redis_client, startup,
             backend_up, cache, ctx, health, redis_answers>>

\* the process is not running: nothing but the applied function moves
Quiescent ==
    /\ proc = "exited"
    /\ RERANKING_ENABLED = TRUE
    /\ index_status = "loading"
    /\ index_last_modified = None
    /\ embedding_model = None
    /\ reranker_model = None
    /\ chroma_collection = None
    /\ index_manifest = Absent
    /\ redis_client = None
    /\ load_pc = "embedding"
    /\ fatal = "none"
    /\ reranker_load = "not_tried"
    /\ backend_up = TRUE
    /\ cache = [k \in Keys |-> Absent]
    /\ ctx = IdleCtx
    /\ health = IdleHealth
    /\ redis_answers = TRUE

\* query strings that differ in case, in surrounding whitespace, or in text
ProbeQueries == Queries \cup { <<" ", "a", "b", "c">>, <<"a", "b", "d">> }

\* the entries a filter map is built from
FilterPairs ==
    { <<"language", "python">>, <<"language", "markdown">>,
      <<"entity_type", "function">>, <<"is_test_file", "true">> }

MaxFilterEntries == 2

\* a dict in insertion order: a sequence of pairs with distinct keys
FilterMaps ==
    UNION { { f \in [1..n -> FilterPairs] :
                \A i, j \in 1..n : i # j => f[i][1] # f[j][1] } : n \in 0..MaxFilterEntries }

ProbeFilters == {Absent} \cup {Some(f) : f \in FilterMaps}

ProbeBodies ==
    [query : ProbeQueries, max_results : 1..MaxResults, filters : ProbeFilters]

\* two requests whose cache keys are to be compared
CacheKeyInputs ==
    { [kind |-> "cache_key", bodies |-> <<a, b>>, out |-> Absent] :
        a \in ProbeBodies, b \in ProbeBodies }

\* context.py lines 50-59 applied to both requests
ApplyCacheKey ==
    /\ probe.kind = "cache_key" /\ probe.out = Absent
    /\ probe' = [probe EXCEPT !.out = Some(<<CacheKey(probe.bodies[1]),
                                             CacheKey(probe.bodies[2])>>)]
    /\ UNCHANGED service

\* candidate rows as the backend returns them, nearest first
ProbeCorpus ==
    Corpus \o << [content |-> "db.py", metadata |-> [language |-> "python"], distance |-> 4] >>

MaxScore == 3

\* a non-empty candidate list, one rerank score per candidate, and max_results
RerankInputs ==
    UNION { { [kind |-> "rerank", rows |-> FirstN(ProbeCorpus, n), scores |-> sc,
               max_results |-> m, out |-> Absent] :
                 sc \in [1..n -> 1..MaxScore], m \in 1..MaxResults } :
            n \in 1..Len(ProbeCorpus) }

\* context.py lines 134-150 applied to the candidates and their scores
ApplyRerank ==
    /\ probe.kind = "rerank" /\ probe.out = Absent
    /\ probe' = [probe EXCEPT !.out = Some(RerankWith(probe.scores, probe.rows,
                                                      probe.max_results))]
    /\ UNCHANGED service

\* the smallest pool size the settings accept with reranking enabled
MIN_RERANK_CANDIDATE_POOL_SIZE == 5

\* ContextRequest.max_results: gt=0, le=20
MAX_RESULTS_LIMIT == 20

PoolSizes == {MIN_RERANK_CANDIDATE_POOL_SIZE, 10, RERANK_CANDIDATE_POOL_SIZE}

\* a permitted configuration and a permitted max_results
NResultsInputs ==
    { [kind |-> "n_results", pool_size |-> p, reranker |-> r, enabled |-> e,
       max_results |-> m, out |-> Absent] :
         p \in PoolSizes, r \in {"CrossEncoder", None}, e \in BOOLEAN,
         m \in 1..MAX_RESULTS_LIMIT }

\* context.py lines 104-108 applied to the configuration and the request
ApplyNResults ==
    /\ probe.kind = "n_results" /\ probe.out = Absent
    /\ probe' = [probe EXCEPT !.out = Some(NResultsFor(probe.pool_size, probe.reranker,
                                                       probe.enabled, probe.max_results))]
    /\ UNCHANGED service

\* what the configured CrossEncoder (settings.RERANKER_MODEL_NAME) makes of
\* the query text of a pair: a cased tokenizer keeps the text as sent, an
\* uncased one lowercases it and ignores the surrounding whitespace
RerankerSees(cased, query) == IF cased THEN query ELSE Strip(Lower(query))

\* context.py lines 99-150 for one request on the cache-miss path, with every
\* call succeeding: the chunks of the response
MissPathChunks(body, reranker, cased) ==
    LET rows == CollectionQuery(NResultsRetrieval(reranker, TRUE, body.max_results),
                                body.filters)
    IN  IF RerankApplies(reranker, TRUE, rows)
        THEN RerankWith([i \in 1..Len(rows) |->
                            Predict(RerankerSees(cased, body.query), rows[i].content)],
                        rows, body.max_results)
        ELSE SimilarityChunks(rows)

\* two requests with the same cache key, and the reranker of the deployment
MissPairInputs ==
    { [kind |-> "miss_pair", bodies |-> pair, reranker |-> r, cased |-> c,
       out |-> Absent] :
         pair \in {p \in ProbeBodies \X ProbeBodies : CacheKey(p[1]) = CacheKey(p[2])},
         r \in {"CrossEncoder", None}, c \in BOOLEAN }

\* the cache-miss path applied to both requests
ApplyMissPath ==
    /\ probe.kind = "miss_pair" /\ probe.out = Absent
    /\ probe' = [probe EXCEPT !.out =
                    Some(<<MissPathChunks(probe.bodies[1], probe.reranker, probe.cased),
                           MissPathChunks(probe.bodies[2], probe.reranker, probe.cased)>>)]
    /\ UNCHANGED service

ProbeInputs == CacheKeyInputs \cup RerankInputs \cup NResultsInputs \cup MissPairInputs

FunctionInit == Quiescent /\ probe \in ProbeInputs

FunctionNext ==
    \/ ApplyCacheKey
    \/ ApplyRerank
    \/ ApplyNResults
    \/ ApplyMissPath

FunctionSpec == FunctionInit /\ [][FunctionNext]_vars

(***************************************************************************)
(* A loaded service handling /context requests while Redis may fall silent *)
(***************************************************************************)

\* the state load_dependencies leaves when every step has succeeded and the
\* done-callback has run, with a Redis client that answered the first ping
ServingInit ==
    /\ proc = "running"
    /\ RERANKING_ENABLED \in BOOLEAN
    /\ index_status = "loaded"
    /\ index_last_modified = "utcnow"
    /\ embedding_model = "SentenceTransformer"
    /\ reranker_model = (IF RERANKING_ENABLED THEN "CrossEncoder" ELSE None)
    /\ chroma_collection = "codebase_collection"
    /\ index_manifest = Some([embedding_model |-> EMBEDDING_MODEL_NAME,
                              chroma_collection_name |-> "codebase_collection",
                              branch |-> "main"])
    /\ redis_client = "redis"
    /\ load_pc = "finished"
    /\ fatal = "none"
    /\ reranker_load = (IF RERANKING_ENABLED THEN "ok" ELSE "not_tried")
    /\ backend_up = TRUE
    /\ cache = [k \in Keys |-> Absent]
    /\ ctx = IdleCtx
    /\ health = IdleHealth
    /\ probe = NoProbe
    /\ redis_answers = TRUE

\* the Redis server keeps its connections open but replies no more
RedisStopsAnswering ==
    /\ Settled /\ redis_answers
    /\ redis_answers' = FALSE
    /\ UNCHANGED <<proc, RERANKING_ENABLED, probe, lifecycle, redis_client, startup,
                   backend_up, cache, ctx, health>>

ServingNext ==
    \/ ContextStart
    \/ CacheGetReturns
    \/ EncodeReturns
    \/ QueryReturns
    \/ RerankReturns
    \/ CacheSetReturns
    \/ ContextResponseSent
    \/ CacheExpires
    \/ RedisStopsAnswering

\* Every call the handler awaits comes back when its server replies, and the
\* framework sends every response.
ServingFairSpec ==
    /\ ServingInit /\ [][ServingNext]_vars
    /\ WF_vars(CacheGetReturns) /\ WF_vars(EncodeReturns) /\ WF_vars(QueryReturns)
    /\ WF_vars(RerankReturns) /\ WF_vars(CacheSetReturns)
    /\ WF_vars(ContextResponseSent)

(***************************************************************************)
(* Properties                                                              *)
(***************************************************************************)

ContextResponded == ctx.pc = "responded"

HealthResponded == health.pc = "responded"

\* C1: while index_status is LOADING, or while the embedding model or the
\* collection is unavailable, every /context response is a 503: no 200 is
\* sent before the lifecycle is LOADED, whatever the cache holds.
C1_UnavailableUntilLoaded ==
    (ContextResponded /\ (index_status = "loading" \/ embedding_model = None
                            \/ chroma_collection = None))
        => Get(ctx.response).status_code = 503

\* C2: a process starts in LOADING; while it runs index_status only moves
\* LOADING -> LOADED or LOADING -> NOT_FOUND, and never leaves LOADED or
\* NOT_FOUND.
C2_LifecycleTransitions ==
    /\ index_status = "loading"
    /\ [][(proc = "exited" /\ proc' = "running") => index_status' = "loading"]_vars
    /\ [][(proc = "running" /\ proc' = "running") =>
            \/ index_status' = index_status
            \/ index_status = "loading" /\ index_status' \in {"loaded", "not_found"}]_vars

C2_Witness == index_status = "loaded" /\ ContextResponded

C4_FatalFailureTerminates == (load_pc = "raised") ~> (proc = "exited")

C4_Witness == proc = "exited" /\ load_pc = "raised" /\ fatal = "collection_open"

\* C5: when the startup timeout fires, index_status is moved to NOT_FOUND
\* (it does not stay LOADING), as on a fatal step failure.
C5_TimeoutMarksNotFound == load_pc = "timed_out" => index_status = "not_found"

\* the manifest that was fetched names another embedding model
ManifestMismatch ==
    /\ index_manifest # Absent
    /\ Get(index_manifest).embedding_model # EMBEDDING_MODEL_NAME

\* C6: with a fetched manifest whose embedding model differs from the
\* configured one, index_status is NOT_FOUND, the collection is never opened,
\* and the process exits.
C6_MismatchNeverLoads ==
    /\ [](ManifestMismatch =>
            /\ index_status = "not_found"
            /\ chroma_collection = None
            /\ load_pc = "raised")
    /\ ManifestMismatch ~> (proc = "exited")

C6_Witness == ManifestMismatch /\ proc = "exited" /\ fatal = "model_mismatch"

C8_NoEmbeddingImmediate503 ==
    (ctx.pc # "idle" /\ ctx.embedding_model = None) =>
        /\ ContextResponded
        /\ Get(ctx.response).status_code = 503
        /\ ctx.calls = {}

C8_Witness ==
    /\ ContextResponded /\ ctx.embedding_model = None
    /\ ctx.redis_client # None
    /\ cache[CacheKey(Get(ctx.body))] # Absent

\* C9: health reports "ok" exactly when the index is LOADED, the reranker
\* substatus is loaded or disabled, and the storage backend is reachable at
\* the time of the check.
C9_OkIffLoadedHealthyAndBackendUp ==
    HealthResponded =>
        (health.status = "ok" <=>
            /\ health.index_status = "loaded"
            /\ health.reranker_status \in {"loaded", "disabled"}
            /\ health.backend_up)

\* C10: the health endpoint answers in every lifecycle state, and a check
\* made or answered while index_status is not LOADED reports "degraded" with
\* HTTP 503, whatever the cache and reranker substatus.
C10_DegradedUnlessLoaded ==
    /\ (proc = "running" /\ Settled /\ health.pc = "idle") => ENABLED HealthStart
    /\ (proc = "running" /\ Settled /\ health.pc = "ping") => ENABLED HealthPingReturns
    /\ (HealthResponded /\ (health.index_status # "loaded" \/ index_status # "loaded")) =>
          health.status = "degraded" /\ health.http_status = 503

C10_Witness ==
    /\ HealthResponded /\ index_status = "not_found"
    /\ health.reranker_status = "loaded" /\ health.redis_status = "connected"

\* C11: the cache never degrades health: a check that found the index LOADED
\* and the reranker loaded or disabled reports "ok" with HTTP 200 whether
\* there is no cache client, the ping failed or timed out, or the ping
\* succeeded; only redis_status tells these apart.
C11_CacheNeverDegradesHealth ==
    HealthResponded =>
        /\ health.redis_status \in {"connected", "disconnected"}
        /\ (redis_client = None => health.redis_status = "disconnected")
        /\ (health.index_status = "loaded" /\ health.reranker_status \in {"loaded", "disabled"}) =>
              health.status = "ok" /\ health.http_status = 200

C11_Witness ==
    /\ HealthResponded /\ health.index_status = "loaded"
    /\ health.reranker_status = "loaded"
    /\ redis_client # None /\ health.redis_status = "disconnected"
    /\ health.status = "ok"

\* the entries of a filter map, whatever their insertion order; no filters
\* and the empty map both have none
Entries(filters) ==
    IF filters = Absent THEN {}
    ELSE {Get(filters)[i] : i \in 1..Len(Get(filters))}

SameRequest(a, b) ==
    /\ NormalizedQuery(a) = NormalizedQuery(b)
    /\ a.max_results = b.max_results
    /\ Entries(a.filters) = Entries(b.filters)

\* C12: the cache key is a function of (normalized query, max_results,
\* filters) and of nothing else: two requests with the same normalized
\* query, the same max_results and the same filter entries get the same key,
\* whatever the insertion order of the entries, and absent filters give the
\* key of the empty filter map.
C12_CacheKeyDeterministic ==
    (probe.kind = "cache_key" /\ probe.out # Absent) =>
        (SameRequest(probe.bodies[1], probe.bodies[2]) =>
            Get(probe.out)[1] = Get(probe.out)[2])

C12_Witness ==
    /\ probe.kind = "cache_key" /\ probe.out # Absent
    /\ probe.bodies[1].query # probe.bodies[2].query
    /\ probe.bodies[1].filters # Absent /\ probe.bodies[2].filters # Absent
    /\ Len(Get(probe.bodies[1].filters)) = 2
    /\ probe.bodies[1].filters # probe.bodies[2].filters
    /\ SameRequest(probe.bodies[1], probe.bodies[2])
    /\ Get(probe.out)[1] = Get(probe.out)[2]

\* a cache hit answers with the stored chunks, a generated query_id and the
\* time this request has taken: one awaited call, the cache read
CacheHitReturnsStored ==
    (ContextResponded /\ Get(ctx.response).source = "cache") =>
        /\ cache[CacheKey(Get(ctx.body))] # Absent
        /\ Get(ctx.response).status_code = 200
        /\ Get(ctx.response).context = Get(cache[CacheKey(Get(ctx.body))]).context
        /\ Get(ctx.response).query_id \in UUIDs
        /\ Get(ctx.response).processing_time_ms = ctx.elapsed /\ ctx.elapsed = 1

\* a stored payload has the chunks and nothing else
PayloadHoldsChunksOnly ==
    \A k \in Keys : cache[k] # Absent => DOMAIN Get(cache[k]) = {"context"}

\* every payload written to the cache holds the chunks that the request
\* writing it returns
StoresReturnedChunks ==
    \A k \in Keys :
        (cache'[k] # cache[k] /\ cache'[k] # Absent) =>
            /\ ctx.pc = "cache_set" /\ ctx'.pc = "responded"
            /\ k = CacheKey(Get(ctx.body))
            /\ cache'[k] = Some([context |-> Get(ctx'.response).context])

\* C13: a cache hit returns exactly the chunks (content, metadata, score,
\* order) that the earlier request stored under the key, with a newly
\* generated query_id and a processing time measured from the start of the
\* current request; the stored payload never holds the query_id or the
\* processing time of the request that stored it.
C13_CacheHitReturnsStoredChunks ==
    /\ [](CacheHitReturnsStored /\ PayloadHoldsChunksOnly)
    /\ [][StoresReturnedChunks]_vars

C13_Witness ==
    /\ ContextResponded /\ Get(ctx.response).source = "cache"
    /\ Len(Get(ctx.response).context) = 2
    /\ Get(ctx.response).context[1].score = Get(ctx.response).context[2].score
    /\ index_status = "loaded" /\ reranker_model = None

\* an error status has a cause outside the cache: 500 follows a failed
\* encoding, query, rerank or assembly, 503 a missing model or collection
ErrorsHaveOtherCause ==
    ContextResponded =>
        /\ Get(ctx.response).status_code \in {200, 500, 503}
        /\ Get(ctx.response).status_code = 500 =>
              ctx.faults \cap {"encode", "query", "rerank", "assembly"} # {}
        /\ Get(ctx.response).status_code = 503 =>
              ctx.embedding_model = None \/ ctx.chroma_collection = None

\* a cache read that raises is followed by what follows a miss
FailedGetIsAMiss ==
    (ctx.pc = "cache_get" /\ ctx'.pc # "idle" /\ "cache_get" \in ctx'.faults) =>
        IF ctx.chroma_collection = None
        THEN ctx'.pc = "responded" /\ Get(ctx'.response).status_code = 503
        ELSE ctx'.pc = "encode" /\ ctx'.response = Absent

\* a cache write that raises leaves the cache alone and returns the response
\* already computed
FailedSetStillReturns ==
    (ctx.pc = "cache_set" /\ ctx'.pc # "idle" /\ "cache_set" \in ctx'.faults) =>
        /\ ctx'.pc = "responded" /\ ctx'.response = ctx.response
        /\ Get(ctx'.response).status_code = 200
        /\ cache' = cache

\* C14: cache faults never reach the caller: a failed cache read (connection,
\* timeout, undecodable or malformed payload) is followed by exactly what
\* follows a miss, a failed cache write still returns the computed 200, and
\* no cache failure turns a request into a 500 or a 503.
C14_CacheFaultsNeverSurface ==
    /\ []ErrorsHaveOtherCause
    /\ [][FailedGetIsAMiss /\ FailedSetStillReturns]_vars

C14_Witness ==
    /\ ContextResponded /\ ctx.faults = {"cache_get", "cache_set"}
    /\ Get(ctx.response).status_code = 200
    /\ Get(ctx.response).source = "rerank"
    /\ cache[CacheKey(Get(ctx.body))] = Absent

\* the cache write is awaited only with a 200 response of at least one chunk
\* in hand, and every stored payload has at least one chunk
SetOnlyWithChunks ==
    /\ \A k \in Keys : cache[k] # Absent => Len(Get(cache[k]).context) >= 1
    /\ "cache_set" \in ctx.calls =>
          /\ ctx.response # Absent
          /\ Get(ctx.response).status_code = 200
          /\ Get(ctx.response).context # <<>>
    /\ (ContextResponded /\ (Get(ctx.response).status_code \in {500, 503}
                              \/ Get(ctx.response).context = <<>>)) =>
          "cache_set" \notin ctx.calls

\* a step of a request that has no chunks to return, or that ends in an
\* error, leaves the cache as it is
NoChunksNoWrite ==
    /\ (ctx.pc \notin {"idle", "responded"} /\ ctx'.pc = "responded"
        /\ (Get(ctx'.response).status_code \in {500, 503}
            \/ Get(ctx'.response).context = <<>>)) => cache' = cache
    /\ \A k \in Keys :
          (cache'[k] # cache[k] /\ cache'[k] # Absent) =>
              ctx.pc = "cache_set" /\ Get(ctx.response).context # <<>>

\* C15: the cache write is attempted only by a request that computed a
\* non-empty result: a request whose final chunk list is empty, or that ends
\* in 503 or 500, leaves the cache unchanged, and every cached payload holds
\* at least one chunk.
C15_OnlyNonEmptyResultsCached ==
    /\ []SetOnlyWithChunks
    /\ [][NoChunksNoWrite]_vars

C15_Witness ==
    /\ ContextResponded /\ ctx.redis_client # None
    /\ Get(ctx.response).status_code = 200
    /\ Get(ctx.response).context = <<>>
    /\ "query" \in ctx.calls /\ "cache_set" \notin ctx.calls

\* the place of a document in the candidate list the backend returned
RetrievalRank(rows, content) == CHOOSE r \in 1..Len(rows) : rows[r].content = content

\* C16: when reranking is active the response has at most max_results
\* chunks, in descending order of rerank score, each chunk carrying its own
\* rerank score, and chunks with equal scores keep their retrieval order.
C16_RerankOrderStable ==
    (probe.kind = "rerank" /\ probe.out # Absent) =>
        LET out == Get(probe.out)
            rank(i) == RetrievalRank(probe.rows, out[i].content)
        IN  /\ Len(out) <= probe.max_results
            /\ \A i \in 1..Len(out) :
                  /\ \E r \in 1..Len(probe.rows) : probe.rows[r].content = out[i].content
                  /\ out[i].score = probe.scores[rank(i)]
                  /\ out[i].metadata = probe.rows[rank(i)].metadata
            /\ \A i, j \in 1..Len(out) :
                  i < j => /\ out[i].score >= out[j].score
                           /\ rank(i) # rank(j)
                           /\ out[i].score = out[j].score => rank(i) < rank(j)

C16_Witness ==
    /\ probe.kind = "rerank" /\ probe.out # Absent
    /\ Len(probe.rows) = 4 /\ Len(Get(probe.out)) = 2
    /\ probe.scores[1] < probe.scores[2] /\ probe.scores[2] = probe.scores[4]
    /\ Get(probe.out)[1].content = probe.rows[2].content
    /\ Get(probe.out)[2].content = probe.rows[4].content

\* C17: with reranking enabled and a reranker available, the retriever is
\* asked for exactly max(max_results, configured pool size) rows, for every
\* max_results in 1..20 and every permitted pool size (at least 5).
C17_PoolIsMaxOfRequestAndConfig ==
    (probe.kind = "n_results" /\ probe.out # Absent
        /\ probe.enabled /\ probe.reranker # None) =>
        Get(probe.out) = IF probe.max_results >= probe.pool_size
                         THEN probe.max_results ELSE probe.pool_size

\* C18: every 200 response, whether computed without reranking, computed
\* with reranking, or served from the cache, has at most max_results chunks
\* in descending order of score (the backend returns at most the requested
\* number of rows, nearest first).
C18_ResponseBoundedAndDescending ==
    (ContextResponded /\ Get(ctx.response).status_code = 200) =>
        LET context == Get(ctx.response).context
        IN  /\ Get(ctx.response).source \in {"similarity", "rerank", "cache"}
            /\ Len(context) <= Get(ctx.body).max_results
            /\ \A i, j \in 1..Len(context) :
                  i < j => context[i].score >= context[j].score

C18_Witness ==
    /\ ContextResponded /\ Get(ctx.response).source = "cache"
    /\ RERANKING_ENABLED /\ ctx.reranker_model # None
    /\ Len(Get(ctx.response).context) = Get(ctx.body).max_results
    /\ Get(ctx.response).context[1].score > Get(ctx.response).context[2].score
    /\ Get(ctx.response).context[1].content # Corpus[1].content

C20_FiltersHonoured ==
    (ContextResponded /\ Get(ctx.response).status_code = 200) =>
        /\ \A i \in 1..Len(Get(ctx.response).context) :
              Satisfies(Get(ctx.response).context[i], Get(ctx.body).filters)
        /\ Get(ctx.response).source = "cache" =>
              \A b \in Bodies :
                  CacheKey(b) = CacheKey(Get(ctx.body)) =>
                      Entries(b.filters) = Entries(Get(ctx.body).filters)

C20_Witness ==
    /\ ContextResponded /\ Get(ctx.response).source = "cache"
    /\ Truthy(Get(ctx.body).filters)
    /\ Len(Get(ctx.response).context) = 2
    /\ cache[CacheKey([Get(ctx.body) EXCEPT !.filters = Absent])] # Absent

\* the steps of the computation whose failure is not expected
InternalSteps == {"encode", "query", "rerank", "assembly"}

\* a request in which such a step has failed is answered 500 with no chunks
\* and has not touched the cache
InternalFailureIs500 ==
    (ContextResponded /\ ctx.faults \cap InternalSteps # {}) =>
        /\ Get(ctx.response).status_code = 500
        /\ Get(ctx.response).context = <<>>
        /\ Get(ctx.response).source = "none"
        /\ "cache_set" \notin ctx.calls

\* the step in which it fails ends that request and changes nothing else
InternalFailureFrame ==
    (ctx'.faults \ ctx.faults) \cap InternalSteps # {} =>
        /\ ctx'.pc = "responded"
        /\ Get(ctx'.response).status_code = 500
        /\ cache' = cache
        /\ UNCHANGED <<lifecycle, proc, health>>

\* C21: an unexpected failure of the query encoding, the retrieval, the
\* reranker (also during a live request) or the response assembly gives a
\* 500 for that request only: no partial result, no fallback to similarity
\* ordering, no cache write, and the readiness state is unchanged.
C21_InternalFailureIs500Only ==
    /\ []InternalFailureIs500
    /\ [][InternalFailureFrame]_vars

C21_Witness ==
    /\ ContextResponded /\ ctx.faults = {"rerank"}
    /\ ctx.rows = <<>> /\ ctx.redis_client # None
    /\ Get(ctx.response).status_code = 500
    /\ index_status = "loaded" /\ reranker_model # None

\* C22: the cache get and the cache set of a /context request are bounded by
\* a timeout: a request that waits for the cache is answered in the end,
\* also when the cache server never replies.
C22_CacheCallsBounded ==
    (ctx.pc \in {"cache_get", "cache_set"}) ~> ContextResponded

\* C23: the readiness state (index_status, embedding model, reranker model,
\* collection, manifest, index_last_modified) is written only by process
\* startup and by the steps of the initialization task; every step of a
\* /context or /health request, whatever its outcome, leaves it unchanged.
C23_ReadinessWrittenByStartupOnly ==
    [][/\ (ctx' # ctx \/ health' # health) => UNCHANGED lifecycle
       /\ lifecycle' # lifecycle =>
             \/ proc = "exited" /\ proc' = "running"
             \/ proc = "running" /\ load_pc \in AwaitPoints /\ load_pc' # load_pc]_vars

C23_Witness ==
    /\ ContextResponded /\ Get(ctx.response).status_code = 500
    /\ index_status = "loaded" /\ chroma_collection # None
    /\ index_last_modified # None /\ "query" \in ctx.faults

\* C24: when the retriever returns no candidate, the rerank stage does
\* nothing even with reranking enabled and the reranker loaded: the reranker
\* is not called, the response is 200 with an empty chunk list, and the
\* request does not write the cache.
C24_EmptyPoolIsNoOp ==
    (/\ ctx.body # Absent /\ "query" \in ctx.calls /\ ctx.pc # "query"
     /\ ctx.faults \cap {"query", "assembly"} = {}
     /\ CollectionQuery(ctx.n_results, Get(ctx.body).filters) = <<>>) =>
        /\ ContextResponded
        /\ Get(ctx.response).status_code = 200
        /\ Get(ctx.response).context = <<>>
        /\ "rerank" \notin ctx.calls
        /\ "cache_set" \notin ctx.calls
        /\ cache[CacheKey(Get(ctx.body))] = Absent

C24_Witness ==
    /\ ContextResponded /\ Get(ctx.response).status_code = 200
    /\ Get(ctx.response).context = <<>>
    /\ RERANKING_ENABLED /\ ctx.reranker_model # None /\ ctx.redis_client # None
    /\ ctx.n_results = RERANK_CANDIDATE_POOL_SIZE

\* C25: in every state a request handler or the health reporter can observe,
\* index_status = LOADED implies that the embedding model is loaded, the
\* collection handle is set, the manifest is set and names the configured
\* embedding model, and index_last_modified is set; and the collection handle
\* and index_last_modified are set only when index_status = LOADED.
C25_LoadedImpliesReadinessComplete ==
    /\ index_status = "loaded" =>
          /\ embedding_model # None
          /\ chroma_collection # None
          /\ index_manifest # Absent
          /\ Get(index_manifest).embedding_model = EMBEDDING_MODEL_NAME
          /\ index_last_modified # None
    /\ chroma_collection # None => index_status = "loaded"
    /\ index_last_modified # None => index_status = "loaded"

C25_Witness ==
    /\ HealthResponded /\ health.index_status = "loaded"
    /\ health.chroma_collection # None /\ health.index_last_modified # None
    /\ RERANKING_ENABLED /\ reranker_model = None

\* C26: two /context requests with the same cache key get the same chunk
\* list on the cache-miss path (same index, same reranker, same readiness),
\* so a cache hit cannot be told from a recomputation; in particular two
\* queries that differ only in letter case or surrounding whitespace get the
\* same reranked result.
C26_SameKeySameChunks ==
    (probe.kind = "miss_pair" /\ probe.out # Absent) =>
        Get(probe.out)[1] = Get(probe.out)[2]

\* C27: with reranking enabled, health reports reranker_status "error" only
\* once the reranker load has been attempted and has failed; before the
\* initialization has reached or finished that step the substatus is not
\* "error".
C27_RerankerErrorOnlyAfterFailedLoad ==
    (HealthResponded /\ health.reranker_status = "error") =>
        reranker_load = "failed"

\* C28: the service never stays in LOADING forever: from process start, with
\* the initialization task and its timeout scheduled fairly, index_status
\* becomes LOADED or the process terminates, also when a step of the
\* initialization (model load, download, backend open) never returns.
C28_NeverLoadingForever ==
    (proc = "running" /\ index_status = "loading") ~>
        (index_status = "loaded" \/ proc = "exited")

====
